---- MODULE Spec2Model ----
(***************************************************************************)
(* Rotterdam Traffic Predictor (src/app.py): a Streamlit script that is    *)
(* executed top to bottom once per user interaction.                       *)
(*                                                                         *)
(* Real numbers (flow, occupancy) are fixed-point integers in thousandths: *)
(* 20.01 is 20010.  Comparisons against the integer thresholds of the     *)
(* source are exact at this resolution.                                    *)
(***************************************************************************)
EXTENDS Integers, Sequences, FiniteSets, TLC

VARIABLES
    files,          \* artifact files present under models/
    cache,          \* keys held by st.cache_resource (process-wide)
    runs,           \* number of script runs started in the session
    raised,         \* history: exceptions raised by earlier or current runs
    model_choice,   \* widget state: model selectbox
    day_input,      \* widget state: day selectbox
    hour_input,     \* widget state: hour slider
    det_input,      \* widget state: detector selectbox ("" = not yet created)
    predict_btn,    \* TRUE only in the run triggered by a click on the button
    pc,             \* position of the running script
    page,           \* elements rendered by the current run
    log,            \* history: pipeline steps executed by the current run
    detector_list,  \* list(le_det.classes_), <<>> until loaded
    day_code,       \* day_mapping[day_input], -1 until assigned
    det_code,       \* le_det.transform([det_input])[0], -1 until assigned
    input_data,     \* <<hour, day_of_week, detid_code>>, <<>> until built
    raw,            \* <<flow, occ>> as returned by the predictors
    pred,           \* <<pred_flow, pred_occ>> after clipping
    handed,         \* arguments of the call of get_traffic_status
    status          \* <<status_text, status_color>>

env     == <<files, cache>>
widgets == <<model_choice, day_input, hour_input, det_input, predict_btn>>
locals  == <<detector_list, day_code, det_code, input_data, raw, pred, handed, status>>
vars    == <<files, cache, runs, raised, model_choice, day_input, hour_input,
             det_input, predict_btn, pc, page, log, detector_list, day_code,
             det_code, input_data, raw, pred, handed, status>>

----------------------------------------------------------------------------
(* Bounds of the model *)

\* script runs explored per session
MaxRuns == 4
\* artifacts that may be absent when the process starts
MaxMissing == 1
\* detector ids the label encoder was fitted on
NumDetectors == 2
\* largest whole occupancy (percent) explored for the classifier
MaxOcc == 25

----------------------------------------------------------------------------
(* Fixed-point helpers *)

R(whole) == whole * 1000

Range(s) == {s[i] : i \in 1..Len(s)}

IndexOf(s, x) == CHOOSE i \in 1..Len(s) : s[i] = x

----------------------------------------------------------------------------
(* Status classifier, app.py 53-77 *)

LANCAR        == "LANCAR"
PADAT_MERAYAP == "PADAT MERAYAP"
MACET         == "MACET"
MACET_TOTAL   == "MACET TOTAL (GRIDLOCK)"

\* variant: the upper edge of the middle band written with a strict comparison
BaseTierStrict15(occupancy) ==
    IF occupancy < R(5) THEN <<LANCAR, "green">>
    ELSE IF R(5) <= occupancy /\ occupancy < R(15) THEN <<PADAT_MERAYAP, "orange">>
    ELSE <<MACET, "red">>

\* if / elif / else on occupancy alone (lines 62-70)
BaseTier(occupancy) ==
    IF occupancy < R(5) THEN <<LANCAR, "green">>
    ELSE IF R(5) <= occupancy /\ occupancy <= R(15) THEN <<PADAT_MERAYAP, "orange">>
    ELSE <<MACET, "red">>

\* variant: the two readings swapped in the override
OverrideSwapped(flow, occupancy) == occupancy < R(100) /\ flow > R(20)

\* variant: the occupancy edge of the override written inclusive
OverrideInclusive(flow, occupancy) == flow < R(100) /\ occupancy >= R(20)

\* condition of the override (line 73)
Override(flow, occupancy) == flow < R(100) /\ occupancy > R(20)

\* variant: the override replaces the label and leaves the color of the base tier
get_traffic_status_keep_color(flow, occupancy) ==
    LET s1 == BaseTier(occupancy)
        s2 == IF Override(flow, occupancy) THEN <<MACET_TOTAL, s1[2]>> ELSE s1
    IN  s2

get_traffic_status(flow, occupancy) ==
    LET s0 == <<"Unknown", "grey">>
        s1 == BaseTier(occupancy)
        s2 == IF Override(flow, occupancy) THEN <<MACET_TOTAL, "black">> ELSE s1
    IN  s2

----------------------------------------------------------------------------
(* Number formatting and clipping, app.py 138-150, 172 *)

\* variant: no clipping
Max0Identity(value) == value

\* max(0, value)
Max0(value) == IF value > 0 THEN value ELSE 0

\* int(x): truncation toward zero
ToInt(x) == IF x >= 0 THEN x \div 1000 ELSE 0 - ((0 - x) \div 1000)

RECURSIVE Pow10(_)
Pow10(n) == IF n = 0 THEN 1 ELSE 10 * Pow10(n - 1)

RECURSIVE Pad(_, _)
Pad(n, d) == IF d = 0 THEN "" ELSE Pad(n \div 10, d - 1) \o ToString(n % 10)

\* f"{x:.<d>f}" for x >= 0: round to d decimals, ties to even.  A tie at this
\* resolution is a tie of the float only when x is a multiple of 1/8, which is
\* the only kind of tie the explored values contain.
FormatFixed(x, d) ==
    LET unit == Pow10(3 - d)
        q    == x \div unit
        r    == x % unit
        up   == (2 * r > unit) \/ (2 * r = unit /\ q % 2 = 1)
        n    == IF up THEN q + 1 ELSE q
    IN  ToString(n \div Pow10(d)) \o "." \o Pad(n % Pow10(d), d)

FlowText(pred_flow) == ToString(ToInt(pred_flow)) \o " kendaraan"

\* variant: the occupancy metric with one decimal
OccTextOneDecimal(pred_occ) == FormatFixed(pred_occ, 1) \o " %"

OccText(pred_occ) == FormatFixed(pred_occ, 2) \o " %"

----------------------------------------------------------------------------
(* Inputs, artifacts and encoders, app.py 26-45, 85-110 *)

ModelOptions == <<"Extra Trees", "XGBoost", "LightGBM", "Polynomial Reg">>

DayOptions == <<"Senin", "Selasa", "Rabu", "Kamis", "Jumat", "Sabtu", "Minggu">>

day_mapping == [d \in Range(DayOptions) |-> IndexOf(DayOptions, d) - 1]

\* values of the hour slider the user moves to (the slider ranges over 0..23,
\* default 12)
HourChoices == {8, 12, 23}

\* the words of a model name, i.e. the name split at its spaces
Words(model_name) ==
    CASE model_name = "Extra Trees"    -> <<"Extra", "Trees">>
      [] model_name = "Polynomial Reg" -> <<"Polynomial", "Reg">>
      [] OTHER                         -> <<model_name>>

RECURSIVE Join(_)
Join(ws) == IF ws = <<>> THEN "" ELSE Head(ws) \o Join(Tail(ws))

\* model_name.replace(" ", "")
CleanName(model_name) == Join(Words(model_name))

EncoderFile == "models/label_encoder_detid.pkl"

FlowFile(model_name) == "models/" \o CleanName(model_name) \o "_flow.pkl"

OccFile(model_name) == "models/" \o CleanName(model_name) \o "_occ.pkl"

AllFiles ==
    {EncoderFile} \cup {FlowFile(m) : m \in Range(ModelOptions)}
                  \cup {OccFile(m) : m \in Range(ModelOptions)}

\* detector ids in the order of LabelEncoder.classes_ (sorted); the encoder
\* was fitted on the first NumDetectors of them
DetUniverse == <<"RDM-12", "RDM-3", "RDM-7", "RDM-9">>

Classes == SubSeq(DetUniverse, 1, NumDetectors)

\* variant: an unseen label silently gets code 0
transform_default(classes, y) ==
    IF y \in Range(classes)
    THEN <<"ok", IndexOf(classes, y) - 1>>
    ELSE <<"ok", 0>>

\* le_det.transform([y])[0]: the position of y in classes_, ValueError for a
\* label the encoder has not seen
transform(classes, y) ==
    IF y \in Range(classes)
    THEN <<"ok", IndexOf(classes, y) - 1>>
    ELSE <<"ValueError", 0 - 1>>

\* variant: the missing encoder file is not noticed
load_resources_ok_always == TRUE

\* load_resources() returns: the call is served from the cache or the file is there
load_resources_ok == "load_resources" \in cache \/ EncoderFile \in files

\* variant: only the flow model's file is required
load_model_ok_flow_only(model_name) ==
    \/ model_name \in cache
    \/ FlowFile(model_name) \in files

\* load_model(model_name) returns: served from the cache, or both files load
load_model_ok(model_name) ==
    \/ model_name \in cache
    \/ (FlowFile(model_name) \in files /\ OccFile(model_name) \in files)

\* values the external predictors return
FlowPreds == {R(0 - 5), R(80), R(99) + 999, R(150)}

OccPreds == {R(0 - 1), R(4) + 999, R(10) + 125, R(22)}

----------------------------------------------------------------------------
(* Page elements *)

ErrorMissing   == <<"error", "File model tidak ditemukan.">>
WidgetModel    == <<"selectbox", "Pilih Model AI / Logika:">>
WidgetDay      == <<"selectbox", "Hari:">>
WidgetHour     == <<"slider", "Jam (0-23):">>
WidgetDetector == <<"selectbox", "ID Detektor:">>
WidgetPredict  == <<"button", "Prediksi Sekarang">>
IdleInfo       == <<"info", "Silakan atur parameter di panel kiri">>
Success        == <<"success", "Analisis Selesai!">>
AboutModel     == <<"subheader", "Tentang Model">>

Exception(name) == <<"exception", name>>

OnPage(element) == element \in Range(page)

Widgets == {WidgetModel, WidgetDay, WidgetHour, WidgetDetector, WidgetPredict}

ResultKinds == {"success", "metric", "status_box", "interpretation"}

RunOver == {"done", "stopped", "failed"}

----------------------------------------------------------------------------
(* The state after the process has started and the first run begins *)

NoLocals ==
    /\ detector_list = <<>>
    /\ day_code = 0 - 1
    /\ det_code = 0 - 1
    /\ input_data = <<>>
    /\ raw = <<>>
    /\ pred = <<>>
    /\ handed = <<>>
    /\ status = <<>>

Init ==
    /\ files \in {fs \in SUBSET AllFiles : Cardinality(AllFiles \ fs) <= MaxMissing}
    /\ cache = {}
    /\ runs = 1
    /\ raised = {}
    /\ model_choice = ModelOptions[1]
    /\ day_input = DayOptions[1]
    /\ hour_input = 12
    /\ det_input = ""
    /\ predict_btn = FALSE
    /\ pc = "header"
    /\ page = <<>>
    /\ log = <<>>
    /\ NoLocals

----------------------------------------------------------------------------
(* User interactions: each one starts a new script run *)

StartRun ==
    /\ pc \in RunOver
    /\ runs < MaxRuns
    /\ runs' = runs + 1
    /\ pc' = "header"
    /\ page' = <<>>
    /\ log' = <<>>
    /\ detector_list' = <<>>
    /\ day_code' = 0 - 1
    /\ det_code' = 0 - 1
    /\ input_data' = <<>>
    /\ raw' = <<>>
    /\ pred' = <<>>
    /\ handed' = <<>>
    /\ status' = <<>>
    /\ UNCHANGED <<env, raised>>

\* rerun of the script without a widget change (browser refresh, "Rerun")
Rerun ==
    /\ StartRun
    /\ predict_btn' = FALSE
    /\ UNCHANGED <<model_choice, day_input, hour_input, det_input>>

SelectModel(m) ==
    /\ OnPage(WidgetModel)
    /\ m # model_choice
    /\ StartRun
    /\ model_choice' = m
    /\ predict_btn' = FALSE
    /\ UNCHANGED <<day_input, hour_input, det_input>>

SelectDay(d) ==
    /\ OnPage(WidgetDay)
    /\ d # day_input
    /\ StartRun
    /\ day_input' = d
    /\ predict_btn' = FALSE
    /\ UNCHANGED <<model_choice, hour_input, det_input>>

SlideHour(h) ==
    /\ OnPage(WidgetHour)
    /\ h # hour_input
    /\ StartRun
    /\ hour_input' = h
    /\ predict_btn' = FALSE
    /\ UNCHANGED <<model_choice, day_input, det_input>>

SelectDetector(d) ==
    /\ OnPage(WidgetDetector)
    /\ d # det_input
    /\ StartRun
    /\ det_input' = d
    /\ predict_btn' = FALSE
    /\ UNCHANGED <<model_choice, day_input, hour_input>>

ClickPredict ==
    /\ OnPage(WidgetPredict)
    /\ StartRun
    /\ predict_btn' = TRUE
    /\ UNCHANGED <<model_choice, day_input, hour_input, det_input>>

\* a missing artifact is put in place (between two runs; the artifacts are
\* read-only and are never removed)
InstallArtifact(f) ==
    /\ pc \in RunOver
    /\ f \notin files
    /\ files' = files \cup {f}
    /\ UNCHANGED <<cache, runs, raised, widgets, pc, page, log, locals>>

----------------------------------------------------------------------------
(* The script, top to bottom *)

\* lines 9-21: page configuration, title, introduction
Header ==
    /\ pc = "header"
    /\ page' = Append(page, <<"title", "Rotterdam Traffic Predictor">>)
    /\ pc' = "startup"
    /\ UNCHANGED <<env, runs, raised, widgets, log, locals>>

\* lines 42-48: load the label encoder or report and stop
Startup ==
    /\ pc = "startup"
    /\ IF load_resources_ok
       THEN /\ cache' = cache \cup {"load_resources"}
            /\ detector_list' = Classes
            /\ pc' = "sidebar"
            /\ UNCHANGED <<page, raised>>
       ELSE /\ page' = Append(page, ErrorMissing)
            /\ pc' = "stopped"
            /\ raised' = raised \cup {"FileNotFoundError: encoder"}
            /\ UNCHANGED <<cache, detector_list>>
    /\ UNCHANGED <<files, runs, widgets, log, day_code, det_code, input_data,
                   raw, pred, handed, status>>

\* lines 82-113: the widgets of the sidebar and the two encodings
Sidebar ==
    /\ pc = "sidebar"
    /\ LET det    == IF det_input = "" THEN detector_list[1] ELSE det_input
           code   == transform(detector_list, det)
           inputs == <<WidgetModel, WidgetDay, WidgetHour, WidgetDetector>>
       IN  /\ det_input' = det
           /\ day_code' = day_mapping[day_input]
           /\ IF code[1] = "ok"
              THEN /\ det_code' = code[2]
                   /\ page' = page \o inputs \o <<WidgetPredict>>
                   /\ pc' = "col1"
                   /\ UNCHANGED raised
              ELSE /\ page' = page \o inputs \o <<Exception(code[1])>>
                   /\ pc' = "failed"
                   /\ raised' = raised \cup {code[1]}
                   /\ UNCHANGED det_code
    /\ UNCHANGED <<env, runs, model_choice, day_input, hour_input, predict_btn,
                   log, detector_list, input_data, raw, pred, handed, status>>

\* variant: the pipeline does not look at the button
ButtonIgnored == TRUE

\* line 121: if predict_btn
ButtonPressed == predict_btn

\* lines 121-124: the button was pressed, load the selected pair of models
LoadModel ==
    /\ pc = "col1"
    /\ ButtonPressed
    /\ log' = Append(log, "load_model")
    /\ IF load_model_ok(model_choice)
       THEN /\ cache' = cache \cup {model_choice}
            /\ pc' = "predict"
            /\ UNCHANGED <<page, raised>>
       ELSE /\ page' = Append(page, Exception("FileNotFoundError"))
            /\ pc' = "failed"
            /\ raised' = raised \cup {"FileNotFoundError: model"}
            /\ UNCHANGED cache
    /\ UNCHANGED <<files, runs, widgets, locals>>

\* lines 127-135: build the feature row and ask both predictors
Predict ==
    /\ pc = "predict"
    /\ input_data' = <<hour_input, day_code, det_code>>
    /\ \E flow \in FlowPreds, occ \in OccPreds : raw' = <<flow, occ>>
    /\ log' = log \o <<"predict_flow", "predict_occ">>
    /\ pc' = "clip"
    /\ UNCHANGED <<env, runs, raised, widgets, page, detector_list, day_code,
                   det_code, pred, handed, status>>

\* lines 138-139
Clip ==
    /\ pc = "clip"
    /\ pred' = <<Max0(raw[1]), Max0(raw[2])>>
    /\ log' = Append(log, "clip")
    /\ pc' = "classify"
    /\ UNCHANGED <<env, runs, raised, widgets, page, detector_list, day_code,
                   det_code, input_data, raw, handed, status>>

\* line 142
Classify ==
    /\ pc = "classify"
    /\ handed' = pred
    /\ status' = get_traffic_status(pred[1], pred[2])
    /\ log' = Append(log, "classify")
    /\ pc' = "render"
    /\ UNCHANGED <<env, runs, raised, widgets, page, detector_list, day_code,
                   det_code, input_data, raw, pred>>

\* lines 145-173: success message, three metrics, status box, interpretation
Results ==
    << Success,
       <<"metric", "Prediksi Arus (Flow)", FlowText(pred[1])>>,
       <<"metric", "Okupansi Jalan", OccText(pred[2])>>,
       <<"metric", "Model Digunakan", model_choice>>,
       <<"status_box", status[2], status[1]>>,
       <<"interpretation", day_input, ToString(hour_input) \o ":00", det_input,
         model_choice, FormatFixed(pred[2], 1) \o "%">> >>

Render ==
    /\ pc = "render"
    /\ page' = page \o Results
    /\ log' = Append(log, "render")
    /\ pc' = "col2"
    /\ UNCHANGED <<env, runs, raised, widgets, locals>>

\* lines 175-179: no button press, show the hint
IdleHint ==
    /\ pc = "col1"
    /\ ~ButtonPressed
    /\ page' = Append(page, IdleInfo)
    /\ pc' = "col2"
    /\ UNCHANGED <<env, runs, raised, widgets, log, locals>>

\* lines 181-197: the right column
About ==
    /\ pc = "col2"
    /\ page' = Append(page, AboutModel)
    /\ pc' = "done"
    /\ UNCHANGED <<env, runs, raised, widgets, log, locals>>

Script ==
    \/ Header
    \/ Startup
    \/ Sidebar
    \/ LoadModel
    \/ Predict
    \/ Clip
    \/ Classify
    \/ Render
    \/ IdleHint
    \/ About

User ==
    \/ Rerun
    \/ \E m \in Range(ModelOptions) : SelectModel(m)
    \/ \E d \in Range(DayOptions) : SelectDay(d)
    \/ \E h \in HourChoices : SlideHour(h)
    \/ \E d \in Range(detector_list) : SelectDetector(d)
    \/ ClickPredict

Next ==
    \/ Script
    \/ User
    \/ \E f \in AllFiles : InstallArtifact(f)

Spec == Init /\ [][Next]_vars

----------------------------------------------------------------------------
(* The classifier alone, applied to a grid of readings *)

FlowGrid == {R(w) + m : w \in {0 - 5, 0, 50, 80, 99, 100, 101, 150}, m \in {0, 999}}

OccGrid == {R(w) + m : w \in (0 - 1)..MaxOcc, m \in {0, 1, 10, 500, 999}}

InitClassify ==
    /\ files = AllFiles
    /\ cache = {}
    /\ runs = 1
    /\ raised = {}
    /\ model_choice = ModelOptions[1]
    /\ day_input = DayOptions[1]
    /\ hour_input = 12
    /\ det_input = ""
    /\ predict_btn = FALSE
    /\ pc = "call"
    /\ page = <<>>
    /\ log = <<>>
    /\ detector_list = <<>>
    /\ day_code = 0 - 1
    /\ det_code = 0 - 1
    /\ input_data = <<>>
    /\ raw = <<>>
    /\ pred = <<>>
    /\ handed \in FlowGrid \X OccGrid
    /\ status = <<>>

CallClassifier ==
    /\ pc = "call"
    /\ status' = get_traffic_status(handed[1], handed[2])
    /\ pc' = "returned"
    /\ UNCHANGED <<env, runs, raised, widgets, page, log, detector_list, day_code,
                   det_code, input_data, raw, pred, handed>>

NextClassify == CallClassifier

SpecClassify == InitClassify /\ [][NextClassify]_vars

----------------------------------------------------------------------------
(* The script driven with an arbitrary detector id, known to the encoder or not *)

SubmitDetector(d) ==
    /\ d # det_input
    /\ StartRun
    /\ det_input' = d
    /\ predict_btn' = FALSE
    /\ UNCHANGED <<model_choice, day_input, hour_input>>

NextEncode ==
    \/ Next
    \/ \E d \in Range(DetUniverse) : SubmitDetector(d)

SpecEncode == Init /\ [][NextEncode]_vars

----------------------------------------------------------------------------
(* Properties of the classifier, checked under SpecClassify *)

Returned == pc = "returned"

\* C1: with flow >= 100 the status is LANCAR iff occupancy < 5, PADAT MERAYAP
\* iff 5 <= occupancy <= 15 and MACET iff occupancy > 15; occupancy exactly 5
\* and exactly 15 are both PADAT MERAYAP.
C1_BandsAtNormalFlow ==
    (Returned /\ handed[1] >= R(100)) =>
        /\ (status[1] = LANCAR) <=> (handed[2] < R(5))
        /\ (status[1] = PADAT_MERAYAP) <=> (R(5) <= handed[2] /\ handed[2] <= R(15))
        /\ (status[1] = MACET) <=> (handed[2] > R(15))
        /\ (handed[2] \in {R(5), R(15)}) => (status[1] = PADAT_MERAYAP)

C1_Witness ==
    Returned /\ handed = <<R(150), R(15)>> /\ status[1] = PADAT_MERAYAP

\* C2: flow < 100 and occupancy > 20 give MACET TOTAL with color black.
C2_GridlockOverride ==
    (Returned /\ handed[1] < R(100) /\ handed[2] > R(20)) =>
        status = <<MACET_TOTAL, "black">>

C2_Witness ==
    Returned /\ handed = <<R(80), R(22)>> /\ status = <<MACET_TOTAL, "black">>

\* C3: with flow >= 100 or occupancy <= 20 the result is never MACET TOTAL and
\* is the tier of the occupancy alone; (50, 20) and (100, 25) are MACET and
\* (50, 20.01) is MACET TOTAL.
C3_OverrideIsStrict ==
    Returned =>
        /\ (handed[1] >= R(100) \/ handed[2] <= R(20)) =>
              /\ status[1] # MACET_TOTAL
              /\ status[1] = IF handed[2] < R(5) THEN LANCAR
                             ELSE IF handed[2] <= R(15) THEN PADAT_MERAYAP
                             ELSE MACET
        /\ (handed = <<R(50), R(20)>>) => (status[1] = MACET)
        /\ (handed = <<R(100), R(25)>>) => (status[1] = MACET)
        /\ (handed = <<R(50), R(20) + 10>>) => (status[1] = MACET_TOTAL)

C3_Witness ==
    Returned /\ handed = <<R(50), R(20)>> /\ status[1] = MACET

\* C5: every call returns, and what it returns is one of the four pairs
\* (LANCAR, green), (PADAT MERAYAP, orange), (MACET, red), (MACET TOTAL, black).
C5_FourFixedPairs ==
    /\ (pc = "call") => ENABLED CallClassifier
    /\ Returned =>
          status \in { <<LANCAR, "green">>, <<PADAT_MERAYAP, "orange">>,
                       <<MACET, "red">>, <<MACET_TOTAL, "black">> }

C5_Witness ==
    Returned /\ handed = <<R(0 - 5), R(25) + 500>> /\ status[2] = "black"

----------------------------------------------------------------------------
(* Properties of the script, checked under Spec *)

Pipeline == <<"load_model", "predict_flow", "predict_occ", "clip", "classify", "render">>

IsPrefix(s, t) == Len(s) <= Len(t) /\ s = SubSeq(t, 1, Len(s))

Kinds == {page[i][1] : i \in 1..Len(page)}

NoResults == Kinds \cap ResultKinds = {}

AfterLoad == {"predict", "clip", "classify", "render", "col2", "done"}

\* C4: the two values handed to get_traffic_status are the predictor outputs
\* with negative values replaced by 0 and the others unchanged; the displayed
\* metrics are those of the clipped values; raw outputs (-5, -1) are
\* classified as (0, 0) and give LANCAR.
C4_ClippedBeforeClassification ==
    (handed # <<>>) =>
        /\ \A i \in {1, 2} :
              /\ (raw[i] < 0) => (handed[i] = 0)
              /\ (raw[i] >= 0) => (handed[i] = raw[i])
        /\ (raw = <<R(0 - 5), R(0 - 1)>>) =>
              /\ handed = <<0, 0>>
              /\ status = <<LANCAR, "green">>
              /\ (pc \in {"col2", "done"}) =>
                    /\ OnPage(<<"metric", "Prediksi Arus (Flow)", "0 kendaraan">>)
                    /\ OnPage(<<"metric", "Okupansi Jalan", "0.00 %">>)
        /\ (raw[1] = R(150)) => (handed[1] = R(150))

C4_Witness ==
    pc = "done" /\ raw = <<R(0 - 5), R(0 - 1)>> /\ status[1] = LANCAR

\* C6: a prediction request whose selected model lacks its flow or its
\* occupancy file ends with an exception on the page and with no prediction,
\* no classification and no result element.
C6_MissingModelHaltsRequest ==
    LET missing == FlowFile(model_choice) \notin files \/ OccFile(model_choice) \notin files
    IN  /\ (predict_btn /\ missing) => (pc \notin AfterLoad)
        /\ (predict_btn /\ missing /\ pc \in RunOver) =>
              /\ pc = "failed"
              /\ page[Len(page)] = Exception("FileNotFoundError")
        /\ (predict_btn /\ pc = "failed") =>
              /\ log = <<"load_model">>
              /\ raw = <<>> /\ pred = <<>> /\ handed = <<>> /\ status = <<>>
              /\ NoResults
              /\ page[Len(page)] = Exception("FileNotFoundError")

C6_Witness ==
    /\ pc = "failed"
    /\ predict_btn
    /\ FlowFile(model_choice) \in files
    /\ OccFile(model_choice) \notin files

\* C7: while the label-encoder file is missing, every run ends at startup with
\* the error message, no widget is evaluated and no prediction is requested.
C7_MissingEncoderStopsEveryRun ==
    (EncoderFile \notin files) =>
        /\ pc \in {"header", "startup", "stopped"}
        /\ ~predict_btn
        /\ Range(page) \cap Widgets = {}
        /\ log = <<>>
        /\ det_code = 0 - 1 /\ day_code = 0 - 1
        /\ (pc = "stopped") => (page[Len(page)] = ErrorMissing)

C7_Witness ==
    runs >= 3 /\ pc = "stopped" /\ EncoderFile \notin files

C10_RunState ==
    /\ IsPrefix(log, Pipeline)
    /\ (~predict_btn) =>
          /\ log = <<>>
          /\ NoResults
          /\ (pc \in {"col2", "done"}) => OnPage(IdleInfo)
    /\ predict_btn => ~OnPage(IdleInfo)
    /\ (predict_btn /\ pc = "done") =>
          /\ log = Pipeline
          /\ ResultKinds \subseteq Kinds
          /\ input_data = <<hour_input, IndexOf(DayOptions, day_input) - 1,
                            IndexOf(DetUniverse, det_input) - 1>>
    /\ (predict_btn /\ pc \in RunOver /\ pc # "done") =>
          /\ pc = "failed"
          /\ log = <<"load_model">>
          /\ NoResults

----------------------------------------------------------------------------
(* Properties of the detector encoding, checked under SpecEncode *)

\* C8: a detector id outside the encoder's classes raises ValueError and gets
\* no code, that run renders no button and no result; a run with a known id is
\* never rejected for its detector, also after an earlier rejection.
C8_UnknownDetectorRejected ==
    /\ (det_code # 0 - 1) =>
          /\ det_input \in Range(Classes)
          /\ DetUniverse[det_code + 1] = det_input
    /\ (det_input # "" /\ det_input \notin Range(Classes)) =>
          /\ det_code = 0 - 1
          /\ pc \in {"header", "startup", "sidebar", "failed", "stopped"}
          /\ log = <<>>
          /\ NoResults
          /\ ~OnPage(WidgetPredict)
          /\ (pc = "failed") => (page[Len(page)] = Exception("ValueError"))
    /\ (det_input \in Range(Classes)) =>
          /\ ~OnPage(Exception("ValueError"))
          /\ (pc \in {"col1", "col2", "done"} \cup AfterLoad) =>
                (det_code = IndexOf(DetUniverse, det_input) - 1)

C8_Witness ==
    /\ "ValueError" \in raised
    /\ pc = "done"
    /\ predict_btn
    /\ det_code = 1
    /\ ResultKinds \subseteq Kinds

====
